---- MODULE Spec2Model ----
(***************************************************************************)
(* Model of the audio enhancement engine of transcriptsmaker:              *)
(*   - audio_processor/processor.py : with_timeout, AudioProcessor         *)
(*   - error_handling/handlers.py   : retry_on_error                       *)
(*   - routes.py                    : with_error_handling, transcribe      *)
(*   - api.py                       : TranscriptionAPI._process_transcription *)
(*   - transcription/deepgram_client.py : transcribe_file and its @retry   *)
(*                                                                         *)
(* One entry point runs at a time (entry).  The pipeline is a step machine *)
(* over the call stack of with_timeout-wrapped stages; wall-clock time     *)
(* passes in stage bodies (work) and the single process-wide SIGALRM timer *)
(* (alarmAt) is armed and cancelled exactly where the code calls           *)
(* signal.alarm.  Calls into third-party libraries (pydub, noisereduce,    *)
(* scipy, librosa, soundfile, Deepgram, the database) either return or     *)
(* raise: both outcomes are kept.                                          *)
(***************************************************************************)
EXTENDS Integers, Sequences, FiniteSets, TLC

VARIABLES
    entry,      \* the entry point that is executing: none, direct, routes,
                \* api, retry, concurrent, deepgram or streaming
    thread,     \* thread that runs process_audio: "main" or "worker"
    file,       \* the input file: path suffix, existence, decoded parameters
    pc,         \* position of the AudioProcessor code
    stack,      \* active with_timeout-wrapped calls, innermost last
    now,        \* wall clock, seconds
    alarmAt,    \* deadline of the pending SIGALRM, NoAlarm if none
    audio,      \* the AudioSegment held by normalize_audio / process_audio
    samples,    \* numpy array built from audio.get_array_of_samples()
    channels,   \* result of split_channels
    enhanced,   \* enhanced_channels built so far
    noise_type, \* label returned by classify_background_noise
    calls,      \* number of invocations of each stage
    result,     \* outcome of process_audio (or of the constructor)
    jpc,        \* position of the request handler / background task
    disk,       \* paths of this job that exist on disk
    db,         \* the Transcription row and the NoiseProfile rows of the job
    surfaced,   \* what the caller of the job finally sees
    partial,    \* sf.write left bytes on disk before it raised
    retry,      \* state of one call of a retry_on_error wrapper
    features,   \* mean spectral centroid and rolloff of the classified signal
    enh,        \* locals of the running enhance_audio call
    worker,     \* what the executor thread of an abandoned request still does
    tf,         \* state of one call of transcribe_file (deepgram_client.py)
    jobs,       \* the requests in flight when uploads arrive together
    uploads,    \* the files in the upload folder shared by those requests
    ws          \* one connection of the streaming client (handle_websocket)

pipeVars == <<thread, file, pc, stack, now, alarmAt, audio, samples, channels,
              enhanced, noise_type, features, enh, calls, result>>
jobVars == <<jpc, disk, db, surfaced, partial, worker>>
sideVars == <<tf, jobs, uploads, ws>>
vars == <<entry, thread, file, pc, stack, now, alarmAt, audio, samples,
          channels, enhanced, noise_type, features, enh, calls, result, jpc,
          disk, db, surfaced, partial, worker, retry, tf, jobs, uploads,
          ws>>

(***************************************************************************)
(* Bounds of the model                                                     *)
(***************************************************************************)
TimeStep == 50          \* seconds of wall clock per step of work
MaxClock == 350         \* no work starts once the clock has reached this
MaxFrames == 2          \* frames of the decoded input
MaxRetriesBound == 3    \* largest max_retries given to retry_on_error
MaxDelay == 2           \* largest delay given to retry_on_error
NumJobs == 2            \* requests in flight together
MaxChunks == 1          \* chunks of audio a connection is followed for
MaxCallbacks == 2       \* handle_error callbacks in flight together
MaxWords == 3           \* words in the first alternative of a response
LongFrames == 2049      \* frames of the one input longer than an LMS block

(***************************************************************************)
(* Program constants                                                       *)
(***************************************************************************)
TARGET_SAMPLE_RATE == 16000
MIN_SAMPLE_RATE == 8000
MAX_CHANNELS == 2
SUPPORTED_FORMATS == {"wav", "mp3", "flac", "mp4"}
ALLOWED_EXTENSIONS == {"wav", "mp3", "flac", "mp4"}
PROCESSING_TIMEOUT == 300
NoAlarm == -1

\* seconds given to each @with_timeout decorator
Budget(fn) ==
    CASE fn = "process_audio" -> 300
      [] fn = "normalize_audio" -> 60
      [] fn = "adaptive_noise_reduction" -> 120
      [] fn = "echo_cancellation" -> 60
      [] fn = "classify_background_noise" -> 60
      [] fn = "enhance_audio" -> 120

Stages == {"process_audio", "normalize_audio", "split_channels",
           "enhance_audio", "adaptive_noise_reduction", "echo_cancellation",
           "classify_background_noise"}

(***************************************************************************)
(* Exceptions.  type is the class of the exception object that propagates, *)
(* origin the class of the exception first raised (the end of the          *)
(* __context__ chain), detail what the first exception was about, msg the  *)
(* message prefixes added by each handler, outermost first.  cause is the  *)
(* class of the exception object the error was given as its cause ("raise  *)
(* ... from e", __cause__), context the class of the exception that was    *)
(* being handled when the error was raised (__context__, set by Python).   *)
(***************************************************************************)
NoError == [type |-> "none", origin |-> "none", detail |-> "none",
            msg |-> <<>>, cause |-> "none", context |-> "none"]

Exc(t, d) == [type |-> t, origin |-> t, detail |-> d, msg |-> <<>>,
              cause |-> "none", context |-> "none"]

\* audio_processor/exceptions.py: subclasses of AudioProcessingError
AudioProcessingErrors == {"AudioFormatError", "AudioQualityError",
                          "AudioProcessingTimeout", "AudioEnhancementError"}

error_code(t) ==
    CASE t = "AudioFormatError" -> "FORMAT_ERROR"
      [] t = "AudioQualityError" -> "QUALITY_ERROR"
      [] t = "AudioProcessingTimeout" -> "TIMEOUT_ERROR"
      [] t = "AudioEnhancementError" -> "ENHANCEMENT_ERROR"
      [] OTHER -> "none"

\* raise AudioEnhancementError(f"<prefix>: {str(e)}") inside an except block:
\* the constructor takes the message only and the raise has no "from"
Wrap(e, prefix) ==
    [type |-> "AudioEnhancementError", origin |-> e.origin,
     detail |-> e.detail, msg |-> <<prefix>> \o e.msg,
     cause |-> "none", context |-> e.type]

\* the "except Exception" clause of each stage body
StageCatch(fn, e) ==
    CASE fn = "normalize_audio" -> Wrap(e, "Failed to normalize audio")
      [] fn = "adaptive_noise_reduction" -> Wrap(e, "Failed to reduce noise")
      [] fn = "echo_cancellation" -> Wrap(e, "Failed to cancel echo")
      [] fn = "classify_background_noise" ->
             Wrap(e, "Failed to classify background noise")
      [] fn = "enhance_audio" -> Wrap(e, "Failed to enhance audio")

\* the "except Exception" clause of process_audio
PipelineCatch(e) ==
    IF e.type \in AudioProcessingErrors THEN e
    ELSE Wrap(e, "Failed to process audio")

Catch(fn, e) == IF fn = "process_audio" THEN PipelineCatch(e)
                ELSE StageCatch(fn, e)

\* an exception raised in the body of the innermost call unwinds the stack
RECURSIVE Propagate(_, _)
Propagate(stk, e) ==
    IF stk = <<>> THEN e
    ELSE Propagate(SubSeq(stk, 1, Len(stk) - 1), Catch(stk[Len(stk)].fn, e))

(***************************************************************************)
(* Data                                                                    *)
(***************************************************************************)
\* str.lower() on the path suffixes the model uses
Lower(s) ==
    CASE s = "WAV" -> "wav"
      [] s = "MP3" -> "mp3"
      [] OTHER -> s

\* the text after the last "." of the path; "audio" is a path without a dot,
\* for which file_path.split('.')[-1] is the whole path
Suffixes == {"wav", "MP3", "txt", "audio"}

\* decoded parameters of the inputs
FrameRates == {4000, 8000, 16000}
ChannelCounts == {1, 2, 3}

\* the short inputs, of 1 MB on disk
ShortFiles == [suffix : Suffixes, frame_rate : FrameRates,
               nch : ChannelCounts, frames : 1..MaxFrames, size_mb : {1}]

\* the inputs: the short files, and one long recording of 150 MB.  size_mb
\* is the size of the file on disk; no code of the pipeline
\* reads it.  The long recording is handed to the processor directly, the web
\* entry points are followed on the short files
Files == ShortFiles
         \cup [suffix : {"wav"}, frame_rate : {TARGET_SAMPLE_RATE},
               nch : {1}, frames : {LongFrames}, size_mb : {150}]

NoFile == [suffix |-> "none", frame_rate |-> 0, nch |-> 0, frames |-> 0,
           size_mb |-> 0]

NoAudio == [channels |-> 0, frame_rate |-> 0, frames |-> 0, sample_width |-> 0]

\* AudioSegment.from_file(self.file_path)
from_file(f) == [channels |-> f.nch, frame_rate |-> f.frame_rate,
                 frames |-> f.frames, sample_width |-> 2]

\* AudioSegment.set_channels(n)
set_channels(a, n) == [a EXCEPT !.channels = n]

\* AudioSegment.set_frame_rate(r): the frame count follows the rate
set_frame_rate(a, r) ==
    [a EXCEPT !.frame_rate = r, !.frames = (a.frames * r) \div a.frame_rate]

\* audio.get_array_of_samples(): one flat array, the channels interleaved
\* frame by frame; a sample is named by its <<frame, channel>>
get_array_of_samples(a) ==
    [i \in 1..(a.frames * a.channels) |->
        <<((i - 1) \div a.channels) + 1, ((i - 1) % a.channels) + 1>>]

NoArray == [ndim |-> 0, cols |-> 0, data |-> <<>>]

\* np.array(audio.get_array_of_samples(), dtype=np.float32) / (1 << ...)
to_numpy(a) == [ndim |-> 1, cols |-> 0, data |-> get_array_of_samples(a)]

\* one-dimensional array from a sequence of samples
Array1(d) == [ndim |-> 1, cols |-> 0, data |-> d]

\* AudioProcessor.split_channels
split_channels(arr) ==
    IF arr.ndim > 1
    THEN [i \in 1..arr.cols |->
             Array1([r \in 1..Len(arr.data) |-> arr.data[r][i]])]
    ELSE <<arr>>

\* the 16-bit value pydub holds for frame f of a recording of n frames that
\* normalize_audio has brought to about -20 dBFS (an r.m.s. of a tenth of
\* full scale): a short input has every sample at a tenth of full scale
\* with alternating sign, a long one has a burst of alternating full-scale
\* samples in its first hundredth and silence after it
pcm(f, n) ==
    IF f <= n \div 100 THEN (IF f % 2 = 1 THEN 32767 ELSE -32768)
    ELSE IF n < 100 THEN (IF f % 2 = 1 THEN 3277 ELSE -3277)
    ELSE 0

\* process_audio line 93: 1 << (8 * audio.sample_width - 1)
full_scale(sample_width) == 2 ^ (8 * sample_width - 1)

\* process_audio lines 92-93: the float32 value num/den of the sample named s
\* of the audio a.  ops lists the operations that have produced a value
Sample(s, a) == [src |-> s, ops |-> <<>>, num |-> pcm(s[1], a.frames),
                 den |-> full_scale(a.sample_width)]

\* the values of the samples named in d
to_float(d, a) == [n \in 1..Len(d) |-> Sample(d[n], a)]

\* the output of a library routine for the sample x: the model follows what
\* has been done with the sample, not the number that comes out
Do(x, op) == [src |-> x.src, ops |-> Append(x.ops, op)]

\* enhance_audio line 259: pre_emphasis = 0.97, in hundredths
pre_emphasis_coefficient == 97

\* x - 0.97 * prev as a fraction, the denominator of prev being a multiple
\* of the one of x
Emphasized(x, prev) ==
    [src |-> x.src, ops |-> <<"pre_emphasis">>,
     num |-> 100 * x.num * (prev.den \div x.den)
                 - pre_emphasis_coefficient * prev.num,
     den |-> 100 * prev.den]

\* an element of np.zeros_like(audio_data) that no statement has written
Zero == [src |-> <<0, 0>>, ops |-> <<"zeros">>]

\* the first differences alone: the leading sample is not kept
pre_emphasis_without_first(x) ==
    [n \in 1..(Len(x) - 1) |-> Emphasized(x[n + 1], x[n])]

\* a recursive filter: from the third sample on, the previous term is the
\* already filtered previous sample
pre_emphasis_from_filtered(x) ==
    <<x[1]>>
        \o [n \in 1..(Len(x) - 1) |->
               IF n = 1 THEN Emphasized(x[2], x[1])
               ELSE Emphasized(x[n + 1], Emphasized(x[n], x[n - 1]))]

\* enhance_audio lines 259-263:
\* np.append(audio_data[0], audio_data[1:] - 0.97 * audio_data[:-1])
pre_emphasis_samples(x) ==
    <<x[1]>> \o [n \in 1..(Len(x) - 1) |-> Emphasized(x[n + 1], x[n])]

\* nr.reduce_noise(y=audio_data, ...): an array of the shape of y
reduce_noise(x) == [n \in 1..Len(x) |-> Do(x[n], "reduce_noise")]

\* echo_cancellation line 197
chunk_size == 1024

\* echo_cancellation lines 198-214: "for i in range(0, len, chunk_size)" from
\* block start i on (0-based), out being cancelled_audio so far; a chunk
\* shorter than chunk_size ends the loop, a full one is written sample by
\* sample with audio_data[i + n] - y
\* The weight vector w is followed by the number of updates "w = w +
\* step_size * e * x_n" it has had since it was the zero vector: w is that
\* number before the block, each sample of the block reads w for y and then
\* updates it once, and the next block goes on with the updated w
RECURSIVE lms_blocks(_, _, _, _)
lms_blocks(x, i, out, w) ==
    IF i >= Len(x) \/ Len(x) - i < chunk_size THEN out
    ELSE lms_blocks(x, i + chunk_size,
                    [k \in 1..Len(out) |->
                        IF i < k /\ k <= i + chunk_size
                        THEN [src |-> x[k].src, ops |-> Append(x[k].ops, "lms"),
                              w |-> w + (k - i - 1)]
                        ELSE out[k]],
                    w + chunk_size)

\* the weights are set to zero again at the start of every block
echo_cancellation_block_weights(x) ==
    LET y == lms_blocks(x, 0, [k \in 1..Len(x) |-> Zero], 0)
    IN  [k \in 1..Len(x) |->
            IF y[k] = Zero THEN Zero
            ELSE [y[k] EXCEPT !.w = (k - 1) % chunk_size]]

\* what echo_cancellation returns: cancelled_audio, created by np.zeros_like;
\* line 196: w = np.zeros(filter_length), a local of the call
echo_cancellation(x) == lms_blocks(x, 0, [k \in 1..Len(x) |-> Zero], 0)

\* enhance_audio lines 272-274
nyquist(sample_rate) == sample_rate \div 2
low_cutoff == 80
high_cutoff == 8000

\* a fraction num/den with den > 0, and the order of two fractions
Frac(n, d) == [num |-> n, den |-> d]

FracLess(a, b) == a.num * b.den < b.num * a.den

\* lines 275-279: Wn=[low_cutoff/nyquist, high_cutoff/nyquist]
band_edges(sample_rate) ==
    [low |-> Frac(low_cutoff, nyquist(sample_rate)),
     high |-> Frac(high_cutoff, nyquist(sample_rate))]

\* scipy.signal.butter(btype='band') designs a digital filter only for
\* critical frequencies 0 < Wn < 1 (it raises ValueError otherwise)
butter_accepts(Wn) ==
    /\ FracLess(Frac(0, 1), Wn.low)
    /\ FracLess(Wn.low, Wn.high)
    /\ FracLess(Wn.high, Frac(1, 1))

\* signal.filtfilt(b, a, echo_cancelled): an array of the shape of its input
filtfilt(x) == [n \in 1..Len(x) |-> Do(x[n], "filtfilt")]

NoLocals == [emphasized_audio |-> <<>>, cleaned_audio |-> <<>>,
             echo_cancelled |-> <<>>]

\* process_audio lines 104-108: np.stack(enhanced_channels, axis=1) or [0]
combine_channels(ech) ==
    IF Len(ech) > 1
    THEN [ndim |-> 2, cols |-> Len(ech),
          data |-> [r \in 1..Len(ech[1].data) |->
                      [c \in 1..Len(ech) |-> ech[c].data[r]]]]
    ELSE ech[1]

NoiseLabels == {"ambient", "mechanical", "speech_babble", "unknown"}

\* values np.mean gives for the spectral centroid and the spectral rolloff,
\* in Hz: the values on both sides of every threshold of the rule table
Centroids == {999, 1000, 3000, 3001}
Rolloffs == {1999, 2000, 5000, 5001}

NoFeatures == [mean_centroid |-> 0, mean_rolloff |-> 0]

\* the rule table with the speech band open at both ends
classify_open_band(mean_centroid, mean_rolloff) ==
    IF mean_centroid < 1000 /\ mean_rolloff < 2000 THEN "ambient"
    ELSE IF mean_centroid > 3000 /\ mean_rolloff > 5000 THEN "mechanical"
    ELSE IF 1000 < mean_centroid /\ mean_centroid < 3000
         THEN "speech_babble"
    ELSE "unknown"

\* classify_background_noise lines 236-243
classify(mean_centroid, mean_rolloff) ==
    IF mean_centroid < 1000 /\ mean_rolloff < 2000 THEN "ambient"
    ELSE IF mean_centroid > 3000 /\ mean_rolloff > 5000 THEN "mechanical"
    ELSE IF 1000 <= mean_centroid /\ mean_centroid <= 3000
         THEN "speech_babble"
    ELSE "unknown"

\* AudioProcessor._validate_file
validate_file(exists, f) ==
    IF ~exists THEN Exc("FileNotFoundError", "missing")
    ELSE IF Lower(f.suffix) \notin SUPPORTED_FORMATS
         THEN Exc("AudioFormatError", "format")
         ELSE NoError

\* the two quality checks in the opposite order
validate_audio_parameters_channels_first(a) ==
    IF a.channels > MAX_CHANNELS
    THEN Exc("AudioQualityError", "channels")
    ELSE IF a.frame_rate < MIN_SAMPLE_RATE
         THEN Exc("AudioQualityError", "sample_rate")
         ELSE NoError

\* AudioProcessor._validate_audio_parameters
validate_audio_parameters(a) ==
    IF a.frame_rate < MIN_SAMPLE_RATE
    THEN Exc("AudioQualityError", "sample_rate")
    ELSE IF a.channels > MAX_CHANNELS
         THEN Exc("AudioQualityError", "channels")
         ELSE NoError

\* normalize_audio lines 132-147, after validation
normalized(a) ==
    LET a1 == IF a.channels > 2 THEN set_channels(a, 2) ELSE a
    IN  IF a1.frame_rate # TARGET_SAMPLE_RATE
        THEN set_frame_rate(a1, TARGET_SAMPLE_RATE)
        ELSE a1

NoResult == [kind |-> "none", error |-> NoError, enhanced_audio |-> NoArray,
             sample_rate |-> 0, noise_type |-> "none"]

Failure(e) == [NoResult EXCEPT !.kind = "error", !.error = e]

\* an active with_timeout-wrapped call: the function, the time it started
\* and, for adaptive_noise_reduction, the signal-to-noise ratio in dB of the
\* audio_data it was given
Frame(fn, t) == [fn |-> fn, start |-> t, snr_db |-> "none"]

\* signal-to-noise ratios of the channels handed to the noise reducer, dB
InputSnrs == {7, 8, 21}

\* adaptive_noise_reduction line 175: prop_decrease=0.75, in hundredths
prop_decrease == 75

Top == stack[Len(stack)]

Pop(stk) == SubSeq(stk, 1, Len(stk) - 1)

\* signal.signal(SIGALRM, ...) raises ValueError outside the main thread of
\* the interpreter, before any alarm is armed
signal_allowed(t) == t = "main"

\* the position the pipeline continues at when a stage returns
Bump(fn) == [calls EXCEPT ![fn] = @ + 1]

(***************************************************************************)
(* The state after construction: nothing runs                              *)
(***************************************************************************)
NoRetry == [pc |-> "idle", max_retries |-> 0, delay |-> 0, attempt |-> 0,
            last_exception |-> 0, log |-> <<>>, outcome |-> "none",
            raised |-> 0]

NoDb == [status |-> "none", pending |-> "none", noise_profiles |-> 0,
         pending_profiles |-> 0]

NoSurfaced == [kind |-> "none", status |-> 0, error |-> NoError]

NoTf == [pc |-> "idle", attempt_number |-> 0, exists |-> FALSE,
         api_errors |-> <<>>, surfaced |-> "none", words |-> <<>>,
         speakers |-> <<>>]

NoJobs == <<>>

\* no connection: metrics as handle_websocket creates them (lines 34-42),
\* active: the connection has an entry in active_connections, callbacks: the
\* handle_error coroutines in flight, by the await they are suspended at
NoWs == [pc |-> "idle", site |-> "none", connected |-> FALSE,
         active |-> FALSE, loop_exit |-> "none",
         metrics |-> [reconnect_attempts |-> 0, chunks_processed |-> 0,
                      status |-> "initializing"],
         callbacks |-> [send |-> 0, sleep |-> 0]]

Init ==
    /\ entry = "none"
    /\ thread = "main"
    /\ file = NoFile
    /\ pc = "idle"
    /\ stack = <<>>
    /\ now = 0
    /\ alarmAt = NoAlarm
    /\ audio = NoAudio
    /\ samples = NoArray
    /\ channels = <<>>
    /\ enhanced = <<>>
    /\ noise_type = "none"
    /\ features = NoFeatures
    /\ enh = NoLocals
    /\ calls = [s \in Stages |-> 0]
    /\ result = NoResult
    /\ jpc = "none"
    /\ disk = {}
    /\ db = NoDb
    /\ surfaced = NoSurfaced
    /\ partial = FALSE
    /\ worker = "none"
    /\ retry = NoRetry
    /\ tf = NoTf
    /\ jobs = NoJobs
    /\ uploads = {}
    /\ ws = NoWs

(***************************************************************************)
(* AudioProcessor: construction and process_audio                          *)
(***************************************************************************)
\* an exception raised in the body of the innermost active call: every
\* handler on the way out converts or re-raises it, every with_timeout
\* wrapper cancels the alarm in its finally clause
Raise(e) ==
    /\ result' = Failure(Propagate(stack, e))
    /\ stack' = <<>>
    /\ alarmAt' = NoAlarm
    /\ pc' = "done"

\* a caller outside the web application constructs an AudioProcessor on a
\* path and calls process_audio
direct_call ==
    /\ entry = "none"
    /\ entry' = "direct"
    /\ \E f \in Files : file' = f
    /\ \E t \in {"main", "worker"} : thread' = t
    /\ \E d \in {{}, {"input"}} : disk' = d
    /\ pc' = "ctor"
    /\ UNCHANGED <<stack, now, alarmAt, audio, samples, channels, enhanced,
                   noise_type, features, enh, calls, result, jpc, db, surfaced,
                   partial, worker, retry, sideVars>>

\* AudioProcessor.__init__ -> _validate_file
AudioProcessor_init ==
    /\ pc = "ctor"
    /\ LET e == validate_file("input" \in disk, file)
       IN  IF e = NoError
           THEN /\ pc' = "call"
                /\ UNCHANGED result
           ELSE /\ pc' = "done"
                /\ result' = Failure(e)
    /\ UNCHANGED <<entry, thread, file, stack, now, alarmAt, audio, samples,
                   channels, enhanced, noise_type, features, enh, calls,
                   jobVars, retry, sideVars>>

\* the with_timeout(300) wrapper is entered: signal.signal, signal.alarm
process_audio_call ==
    /\ pc = "call"
    /\ calls' = Bump("process_audio")
    /\ IF signal_allowed(thread)
       THEN /\ alarmAt' = now + Budget("process_audio")
            /\ stack' = <<Frame("process_audio", now)>>
            /\ pc' = "pa_normalize"
            /\ UNCHANGED result
       ELSE /\ result' = Failure(Exc("ValueError", "signal"))
            /\ pc' = "done"
            /\ UNCHANGED <<alarmAt, stack>>
    /\ UNCHANGED <<entry, thread, file, now, audio, samples, channels,
                   enhanced, noise_type, features, enh, jobVars, retry,
                   sideVars>>

\* a nested with_timeout wrapper is entered: signal.alarm(seconds) replaces
\* whatever alarm was pending
StageCall(fn, at, to) ==
    /\ pc = at
    /\ calls' = Bump(fn)
    /\ alarmAt' = now + Budget(fn)
    /\ stack' = Append(stack, Frame(fn, now))
    /\ pc' = to

\* a wrapper that returns without cancelling its alarm
StageReturn_alarm_kept(at, to) ==
    /\ pc = at
    /\ alarmAt' = alarmAt
    /\ stack' = Pop(stack)
    /\ pc' = to

\* a nested with_timeout wrapper returns: signal.alarm(0)
StageReturn(at, to) ==
    /\ pc = at
    /\ alarmAt' = NoAlarm
    /\ stack' = Pop(stack)
    /\ pc' = to

normalize_audio_call ==
    /\ StageCall("normalize_audio", "pa_normalize", "norm_load")
    /\ UNCHANGED <<entry, thread, file, now, audio, samples, channels,
                   enhanced, noise_type, features, enh, result, jobVars, retry,
                   sideVars>>

\* AudioSegment.from_file returns
normalize_audio_load ==
    /\ pc = "norm_load"
    /\ audio' = from_file(file)
    /\ pc' = "norm_validate"
    /\ UNCHANGED <<entry, thread, file, stack, now, alarmAt, samples, channels,
                   enhanced, noise_type, features, enh, calls, result, jobVars,
                   retry, sideVars>>

\* self._validate_audio_parameters(audio) raises inside normalize_audio's try
normalize_audio_reject ==
    /\ pc = "norm_validate"
    /\ validate_audio_parameters(audio) # NoError
    /\ Raise(validate_audio_parameters(audio))
    /\ UNCHANGED <<entry, thread, file, now, audio, samples, channels,
                   enhanced, noise_type, features, enh, calls, jobVars, retry,
                   sideVars>>

\* channel cap, resampling and gain; normalize_audio returns
normalize_audio_return ==
    /\ validate_audio_parameters(audio) = NoError
    /\ StageReturn("norm_validate", "pa_convert")
    /\ audio' = normalized(audio)
    /\ UNCHANGED <<entry, thread, file, now, samples, channels, enhanced,
                   noise_type, features, enh, calls, result, jobVars, retry,
                   sideVars>>

\* process_audio lines 92-94
convert_samples ==
    /\ pc = "pa_convert"
    /\ samples' = to_numpy(audio)
    /\ pc' = "pa_split"
    /\ UNCHANGED <<entry, thread, file, stack, now, alarmAt, audio, channels,
                   enhanced, noise_type, features, enh, calls, result, jobVars,
                   retry, sideVars>>

\* process_audio line 97
split_channels_call ==
    /\ pc = "pa_split"
    /\ calls' = Bump("split_channels")
    /\ channels' = split_channels(samples)
    /\ enhanced' = <<>>
    /\ pc' = "pa_enhance"
    /\ UNCHANGED <<entry, thread, file, stack, now, alarmAt, audio, samples,
                   noise_type, features, enh, result, jobVars, retry,
                   sideVars>>

\* process_audio line 101: the next channel of the list comprehension
enhance_audio_call ==
    /\ Len(enhanced) < Len(channels)
    /\ StageCall("enhance_audio", "pa_enhance", "enh_preemph")
    /\ UNCHANGED <<entry, thread, file, now, audio, samples, channels,
                   enhanced, noise_type, features, enh, result, jobVars, retry,
                   sideVars>>

\* enhance_audio lines 259-263
pre_emphasis ==
    /\ pc = "enh_preemph"
    /\ enh' = [NoLocals EXCEPT !.emphasized_audio =
                  pre_emphasis_samples(
                      to_float(channels[Len(enhanced) + 1].data, audio))]
    /\ pc' = "enh_nr"
    /\ UNCHANGED <<entry, thread, file, stack, now, alarmAt, audio, samples,
                   channels, enhanced, noise_type, features, calls, result,
                   jobVars, retry, sideVars>>

\* the channel has some signal-to-noise ratio; the call does not measure it
adaptive_noise_reduction_call ==
    /\ pc = "enh_nr"
    /\ calls' = Bump("adaptive_noise_reduction")
    /\ alarmAt' = now + Budget("adaptive_noise_reduction")
    /\ \E snr \in InputSnrs :
         stack' = Append(stack, [Frame("adaptive_noise_reduction", now)
                                   EXCEPT !.snr_db = snr])
    /\ pc' = "nr_body"
    /\ UNCHANGED <<entry, thread, file, now, audio, samples, channels,
                   enhanced, noise_type, features, enh, result, jobVars, retry,
                   sideVars>>

adaptive_noise_reduction_return ==
    /\ StageReturn("nr_body", "enh_echo")
    /\ enh' = [enh EXCEPT !.cleaned_audio = reduce_noise(enh.emphasized_audio)]
    /\ UNCHANGED <<entry, thread, file, now, audio, samples, channels,
                   enhanced, noise_type, features, calls, result, jobVars,
                   retry, sideVars>>

echo_cancellation_call ==
    /\ StageCall("echo_cancellation", "enh_echo", "echo_body")
    /\ UNCHANGED <<entry, thread, file, now, audio, samples, channels,
                   enhanced, noise_type, features, enh, result, jobVars, retry,
                   sideVars>>

echo_cancellation_return ==
    /\ StageReturn("echo_body", "enh_bandpass")
    /\ enh' = [enh EXCEPT
                 !.echo_cancelled = echo_cancellation(enh.cleaned_audio)]
    /\ UNCHANGED <<entry, thread, file, now, audio, samples, channels,
                   enhanced, noise_type, features, calls, result, jobVars,
                   retry, sideVars>>

\* butter and filtfilt return; enhance_audio returns the filtered channel.
\* The design step is a library call like the others: the run in which it
\* returns is kept next to the run in which it raises (library_raise),
\* whatever butter_accepts says of the band edges
enhance_audio_return ==
    /\ StageReturn("enh_bandpass",
                   IF Len(enhanced) + 1 < Len(channels)
                   THEN "pa_enhance" ELSE "pa_combine")
    /\ enhanced' = Append(enhanced, Array1(filtfilt(enh.echo_cancelled)))
    /\ UNCHANGED <<entry, thread, file, now, audio, samples, channels,
                   noise_type, features, enh, calls, result, jobVars, retry,
                   sideVars>>

\* process_audio lines 104-108: enhanced_audio is bound to the combination
\* of the enhanced channels
combine_enhanced_channels ==
    /\ pc = "pa_combine"
    /\ result' = [result EXCEPT !.enhanced_audio = combine_channels(enhanced)]
    /\ pc' = "pa_classify"
    /\ UNCHANGED <<entry, thread, file, stack, now, alarmAt, audio, samples,
                   channels, enhanced, noise_type, features, enh, calls,
                   jobVars, retry, sideVars>>

classify_background_noise_call ==
    /\ StageCall("classify_background_noise", "pa_classify", "cls_body")
    /\ UNCHANGED <<entry, thread, file, now, audio, samples, channels,
                   enhanced, noise_type, features, enh, result, jobVars, retry,
                   sideVars>>

\* librosa returns the features, the rule table gives the label
classify_background_noise_return ==
    /\ StageReturn("cls_body", "pa_return")
    /\ \E c \in Centroids, r \in Rolloffs :
         /\ features' = [mean_centroid |-> c, mean_rolloff |-> r]
         /\ noise_type' = classify(c, r)
    /\ UNCHANGED <<entry, thread, file, now, audio, samples, channels,
                   enhanced, enh, calls, result, jobVars, retry, sideVars>>

\* process_audio returns (enhanced_audio, sample_rate, noise_type)
process_audio_return ==
    /\ StageReturn("pa_return", "done")
    /\ result' = [kind |-> "ok", error |-> NoError,
                  enhanced_audio |-> result.enhanced_audio,
                  sample_rate |-> audio.frame_rate,
                  noise_type |-> noise_type]
    /\ UNCHANGED <<entry, thread, file, now, audio, samples, channels,
                   enhanced, noise_type, features, enh, calls, jobVars, retry,
                   sideVars>>

\* positions at which a library call of the body may raise, and what
LibraryCalls == {"norm_load", "nr_body", "echo_body", "enh_bandpass",
                 "cls_body"}

LibraryError(at) ==
    CASE at = "norm_load" -> Exc("CouldntDecodeError", "decode")
      [] at = "nr_body" -> Exc("ValueError", "reduce_noise")
      [] at = "echo_body" -> Exc("ValueError", "lms")
      [] at = "enh_bandpass" -> Exc("ValueError", "butter")
      [] at = "cls_body" -> Exc("ValueError", "librosa")

library_raise ==
    /\ pc \in LibraryCalls
    /\ Raise(LibraryError(pc))
    /\ UNCHANGED <<entry, thread, file, now, audio, samples, channels,
                   enhanced, noise_type, features, enh, calls, jobVars, retry,
                   sideVars>>

\* timeout_handler: SIGALRM is delivered to the code that is running
timeout_handler == Exc("AudioProcessingTimeout", Top.fn)

\* the running body computes for TimeStep seconds; if the pending alarm
\* expires meanwhile, timeout_handler raises in the running body
work ==
    /\ stack # <<>>
    /\ now < MaxClock
    /\ now' = now + TimeStep
    /\ IF alarmAt # NoAlarm /\ now' >= alarmAt
       THEN Raise(timeout_handler)
       ELSE UNCHANGED <<result, stack, alarmAt, pc>>
    /\ UNCHANGED <<entry, thread, file, audio, samples, channels, enhanced,
                   noise_type, features, enh, calls, jobVars, retry, sideVars>>

Pipeline ==
    \/ AudioProcessor_init
    \/ process_audio_call
    \/ normalize_audio_call
    \/ normalize_audio_load
    \/ normalize_audio_reject
    \/ normalize_audio_return
    \/ convert_samples
    \/ split_channels_call
    \/ enhance_audio_call
    \/ pre_emphasis
    \/ adaptive_noise_reduction_call
    \/ adaptive_noise_reduction_return
    \/ echo_cancellation_call
    \/ echo_cancellation_return
    \/ enhance_audio_return
    \/ combine_enhanced_channels
    \/ classify_background_noise_call
    \/ classify_background_noise_return
    \/ process_audio_return
    \/ library_raise
    \/ work

(***************************************************************************)
(* error_handling/handlers.py: one call of a retry_on_error wrapper.       *)
(* An exception is named by the invocation that raised it; the log lists   *)
(* the invocations of the wrapped function and the sleeps, in order.       *)
(***************************************************************************)
Invoked(out) == [ev |-> "invoke", out |-> out, seconds |-> 0]

Slept(sec) == [ev |-> "sleep", out |-> "none", seconds |-> sec]

\* time.sleep(delay * (attempt + 1))
sleep_seconds(delay, attempt) == delay * (attempt + 1)

\* the wrapper is called
retry_on_error_call ==
    /\ entry = "none"
    /\ entry' = "retry"
    /\ \E m \in 0..MaxRetriesBound, d \in 1..MaxDelay :
         retry' = [NoRetry EXCEPT !.pc = "loop", !.max_retries = m,
                                  !.delay = d]
    /\ UNCHANGED <<pipeVars, jobVars, sideVars>>

\* func(*args, **kwargs) returns: the wrapper returns its value
retry_invoke_return ==
    /\ retry.pc = "loop"
    /\ retry.attempt < retry.max_retries
    /\ retry' = [retry EXCEPT !.pc = "done", !.outcome = "returned",
                              !.log = Append(@, Invoked("returned"))]
    /\ UNCHANGED <<entry, pipeVars, jobVars, sideVars>>

\* the wrapper sleeps after every allowed exception, the last one included
retry_invoke_allowed_always_sleeps ==
    /\ retry.pc = "loop"
    /\ retry.attempt < retry.max_retries
    /\ retry' = [retry EXCEPT
         !.last_exception = retry.attempt + 1,
         !.log = @ \o <<Invoked("allowed"),
                        Slept(sleep_seconds(retry.delay, retry.attempt))>>,
         !.attempt = @ + 1]
    /\ UNCHANGED <<entry, pipeVars, jobVars, sideVars>>

\* func raises one of allowed_exceptions
retry_invoke_allowed ==
    /\ retry.pc = "loop"
    /\ retry.attempt < retry.max_retries
    /\ retry' = [retry EXCEPT
         !.last_exception = retry.attempt + 1,
         !.log = IF retry.attempt < retry.max_retries - 1
                 THEN @ \o <<Invoked("allowed"),
                             Slept(sleep_seconds(retry.delay, retry.attempt))>>
                 ELSE Append(@, Invoked("allowed")),
         !.attempt = @ + 1]
    /\ UNCHANGED <<entry, pipeVars, jobVars, sideVars>>

\* any other exception handled like an allowed one: sleep and try again
retry_invoke_other_retried ==
    /\ retry.pc = "loop"
    /\ retry.attempt < retry.max_retries
    /\ retry' = [retry EXCEPT
         !.last_exception = retry.attempt + 1,
         !.log = IF retry.attempt < retry.max_retries - 1
                 THEN @ \o <<Invoked("other"),
                             Slept(sleep_seconds(retry.delay, retry.attempt))>>
                 ELSE Append(@, Invoked("other")),
         !.attempt = @ + 1]
    /\ UNCHANGED <<entry, pipeVars, jobVars, sideVars>>

\* func raises any other exception: "except Exception: raise"
retry_invoke_other ==
    /\ retry.pc = "loop"
    /\ retry.attempt < retry.max_retries
    /\ retry' = [retry EXCEPT !.pc = "done", !.outcome = "raised_other",
                              !.raised = retry.attempt + 1,
                              !.log = Append(@, Invoked("other"))]
    /\ UNCHANGED <<entry, pipeVars, jobVars, sideVars>>

\* the loop is over: "raise last_exception" (None when max_retries is 0,
\* which Python turns into a TypeError)
retry_exhausted ==
    /\ retry.pc = "loop"
    /\ retry.attempt >= retry.max_retries
    /\ retry' = [retry EXCEPT
         !.pc = "done",
         !.outcome = IF retry.last_exception = 0 THEN "raised_TypeError"
                     ELSE "raised_allowed",
         !.raised = retry.last_exception]
    /\ UNCHANGED <<entry, pipeVars, jobVars, sideVars>>

Retry ==
    \/ retry_on_error_call
    \/ retry_invoke_return
    \/ retry_invoke_allowed
    \/ retry_invoke_other
    \/ retry_exhausted

(***************************************************************************)
(* routes.py: POST /api/transcribe                                         *)
(***************************************************************************)
\* allowed_file(filename)
allowed_file(f) ==
    /\ f.suffix # "audio"
    /\ Lower(f.suffix) \in ALLOWED_EXTENSIONS

\* with_error_handling lines 46-58: the status of the error response
http_status(e) ==
    IF e.type = "ValueError" THEN 400
    ELSE IF e.type = "FileNotFoundError" THEN 404
         ELSE 500

\* a finally clause that removes the upload only
cleanup_paths_input_only(d) == d \ {"input"}

\* transcribe lines 180-188: the finally clause removes both paths
cleanup_paths(d) == d \ {"input", "enhanced"}

\* db.session.rollback(): uncommitted changes are dropped
rollback(r) == [r EXCEPT !.pending = "none", !.pending_profiles = 0]

\* db.session.commit()
commit(r) ==
    [status |-> IF r.pending = "none" THEN r.status ELSE r.pending,
     pending |-> "none",
     noise_profiles |-> r.noise_profiles + r.pending_profiles,
     pending_profiles |-> 0]

\* an exception e leaves transcribe with d on disk: except (rollback),
\* finally (cleanup), then the error response of with_error_handling
TranscribeFail(e, d) ==
    /\ db' = rollback(db)
    /\ disk' = cleanup_paths(d)
    /\ surfaced' = [kind |-> "response", status |-> http_status(e),
                    error |-> e]
    /\ jpc' = "finished"

\* request validation fails before any record or file is created
transcribe_reject ==
    /\ entry = "none"
    /\ entry' = "routes"
    /\ \E f \in ShortFiles :
         /\ ~allowed_file(f)
         /\ file' = f
    /\ surfaced' = [kind |-> "response", status |-> 400,
                    error |-> Exc("ValueError", "request")]
    /\ jpc' = "finished"
    /\ UNCHANGED <<thread, pc, stack, now, alarmAt, audio, samples, channels,
                   enhanced, noise_type, features, enh, calls, result, disk,
                   db, partial, worker, retry, sideVars>>

\* lines 95-109: the record is committed as 'processing', the upload saved.
\* process_audio is handed to asyncio.to_thread, whose executor threads are
\* not the main thread; the run in which the call lands on the main thread
\* is kept as well, so that the steps after process_audio are covered
transcribe_begin ==
    /\ entry = "none"
    /\ entry' = "routes"
    /\ \E f \in ShortFiles :
         /\ allowed_file(f)
         /\ file' = f
    /\ \E t \in {"main", "worker"} : thread' = t
    /\ db' = commit([NoDb EXCEPT !.pending = "processing"])
    /\ disk' = {"input"}
    /\ jpc' = "process"
    /\ pc' = "ctor"
    /\ UNCHANGED <<stack, now, alarmAt, audio, samples, channels, enhanced,
                   noise_type, features, enh, calls, result, surfaced, partial,
                   worker, retry, sideVars>>

\* lines 112-116: the constructor and process_audio succeeded
transcribe_processed ==
    /\ entry = "routes"
    /\ jpc = "process"
    /\ pc = "done"
    /\ result.kind = "ok"
    /\ jpc' = "save"
    /\ UNCHANGED <<entry, pipeVars, disk, db, surfaced, partial, worker, retry,
                   sideVars>>

\* the constructor or process_audio raised
transcribe_process_error ==
    /\ entry = "routes"
    /\ jpc = "process"
    /\ pc = "done"
    /\ result.kind = "error"
    /\ TranscribeFail(result.error, disk)
    /\ UNCHANGED <<entry, pipeVars, partial, worker, retry, sideVars>>

\* lines 119-124: save_enhanced_audio wrote the file
transcribe_saved ==
    /\ entry = "routes"
    /\ jpc = "save"
    /\ disk' = disk \cup {"enhanced"}
    /\ jpc' = "transcribe"
    /\ UNCHANGED <<entry, pipeVars, db, surfaced, partial, worker, retry,
                   sideVars>>

\* sf.write raised, possibly after creating the file; save_enhanced_audio
\* raises AudioEnhancementError
transcribe_save_error ==
    /\ entry = "routes"
    /\ jpc = "save"
    /\ \E wrote \in BOOLEAN :
         /\ partial' = wrote
         /\ TranscribeFail(Wrap(Exc("OSError", "write"),
                                "Failed to save enhanced audio"),
                           IF wrote THEN disk \cup {"enhanced"} ELSE disk)
    /\ UNCHANGED <<entry, pipeVars, worker, retry, sideVars>>

\* line 127: transcribe_file returned; its finally clause has removed the
\* file it was given
transcribe_transcribed ==
    /\ entry = "routes"
    /\ jpc = "transcribe"
    /\ disk' = disk \ {"enhanced"}
    /\ jpc' = "update"
    /\ UNCHANGED <<entry, pipeVars, db, surfaced, partial, worker, retry,
                   sideVars>>

\* transcribe_file raised DeepgramError (after removing the file)
transcribe_transcription_error ==
    /\ entry = "routes"
    /\ jpc = "transcribe"
    /\ TranscribeFail(Exc("DeepgramError", "transcribe_file"),
                      disk \ {"enhanced"})
    /\ UNCHANGED <<entry, pipeVars, partial, worker, retry, sideVars>>

\* the record is completed and committed, no NoiseProfile is added
transcribe_completed_without_profile ==
    /\ entry = "routes"
    /\ jpc = "update"
    /\ db' = commit([db EXCEPT !.pending = "completed"])
    /\ disk' = cleanup_paths(disk)
    /\ surfaced' = [kind |-> "response", status |-> 200, error |-> NoError]
    /\ jpc' = "finished"
    /\ UNCHANGED <<entry, pipeVars, partial, worker, retry, sideVars>>

\* lines 130-174: the record is completed, the NoiseProfile added, commit
transcribe_completed ==
    /\ entry = "routes"
    /\ jpc = "update"
    /\ db' = commit([db EXCEPT !.pending = "completed",
                               !.pending_profiles = 1])
    /\ disk' = cleanup_paths(disk)
    /\ surfaced' = [kind |-> "response", status |-> 200, error |-> NoError]
    /\ jpc' = "finished"
    /\ UNCHANGED <<entry, pipeVars, partial, worker, retry, sideVars>>

\* line 156: db.session.commit() raised
transcribe_commit_error ==
    /\ entry = "routes"
    /\ jpc = "update"
    /\ TranscribeFail(Exc("SQLAlchemyError", "commit"), disk)
    /\ UNCHANGED <<entry, pipeVars, partial, worker, retry, sideVars>>

\* save_enhanced_audio is writing in its executor thread while the request
\* awaits it
save_work ==
    /\ entry = "routes"
    /\ jpc = "save"
    /\ now < MaxClock
    /\ now' = now + TimeStep
    /\ UNCHANGED <<entry, thread, file, pc, stack, alarmAt, audio, samples,
                   channels, enhanced, noise_type, features, enh, calls,
                   result, jpc, disk, db, surfaced, partial, worker, retry,
                   sideVars>>

\* with_error_handling lines 35-45: asyncio.wait_for gives up after
\* PROCESSING_TIMEOUT seconds and cancels the view while it awaits
\* asyncio.to_thread.  The cancellation is no Exception, so only the finally
\* clause of transcribe runs (cleanup), then the 408 response is built.  The
\* executor thread is not stopped: it goes on with the call it was given
request_deadline ==
    /\ entry = "routes"
    /\ jpc \in {"process", "save"}
    /\ now >= PROCESSING_TIMEOUT
    /\ worker' = IF jpc = "save" THEN "save_enhanced_audio"
                 ELSE IF pc # "done" THEN "process_audio" ELSE "none"
    /\ disk' = cleanup_paths(disk)
    /\ surfaced' = [kind |-> "response", status |-> 408,
                    error |-> Exc("TimeoutError", "wait_for")]
    /\ jpc' = "finished"
    /\ UNCHANGED <<entry, pipeVars, db, partial, retry, sideVars>>

\* the abandoned thread ends process_audio; nobody takes its result
worker_process_returns ==
    /\ worker = "process_audio"
    /\ pc = "done"
    /\ worker' = "none"
    /\ UNCHANGED <<entry, pipeVars, jpc, disk, db, surfaced, partial, retry,
                   sideVars>>

\* the abandoned thread ends save_enhanced_audio: sf.write has written
\* enhanced_path
worker_save_returns ==
    /\ worker = "save_enhanced_audio"
    /\ disk' = disk \cup {"enhanced"}
    /\ worker' = "returned"
    /\ UNCHANGED <<entry, pipeVars, jpc, db, surfaced, partial, retry,
                   sideVars>>

Routes ==
    \/ transcribe_reject
    \/ save_work
    \/ request_deadline
    \/ worker_process_returns
    \/ worker_save_returns
    \/ transcribe_begin
    \/ transcribe_processed
    \/ transcribe_process_error
    \/ transcribe_saved
    \/ transcribe_save_error
    \/ transcribe_transcribed
    \/ transcribe_transcription_error
    \/ transcribe_completed
    \/ transcribe_commit_error

(***************************************************************************)
(* api.py: TranscriptionAPI.post and _process_transcription                *)
(***************************************************************************)
\* post lines 66-79: upload saved, record committed as 'processing', task
\* created
api_post ==
    /\ entry = "none"
    /\ entry' = "api"
    /\ \E f \in ShortFiles : file' = f
    /\ \E t \in {"main", "worker"} : thread' = t
    /\ db' = commit([NoDb EXCEPT !.pending = "processing"])
    /\ disk' = {"input"}
    /\ jpc' = "process"
    /\ pc' = "ctor"
    /\ UNCHANGED <<stack, now, alarmAt, audio, samples, channels, enhanced,
                   noise_type, features, enh, calls, result, surfaced, partial,
                   worker, retry, sideVars>>

\* what "await processor.process_audio()" raises: the error of the
\* constructor or of process_audio, or TypeError because the tuple that
\* process_audio returns cannot be awaited
awaited_error(r) ==
    IF r.kind = "error" THEN r.error ELSE Exc("TypeError", "await")

\* lines 128-141: the except clause marks the record failed and commits;
\* the finally clause then reads enhanced_path, which line 97 never bound,
\* and the UnboundLocalError leaves the task before any file is removed
process_transcription_failed ==
    /\ entry = "api"
    /\ jpc = "process"
    /\ pc = "done"
    /\ db' = commit([db EXCEPT !.pending = "failed"])
    /\ surfaced' = [kind |-> "task_exception", status |-> 0,
                    error |-> [Exc("UnboundLocalError", "enhanced_path")
                               EXCEPT !.origin = awaited_error(result).type]]
    /\ jpc' = "finished"
    /\ UNCHANGED <<entry, pipeVars, disk, partial, worker, retry, sideVars>>

Api ==
    \/ api_post
    \/ process_transcription_failed

(***************************************************************************)
(* routes.py: several requests of POST /api/transcribe in flight together  *)
(* (the server runs threaded, the view is a coroutine).  A path is the      *)
(* sequence of the parts of its name inside the one upload folder.          *)
(***************************************************************************)
\* filenames the clients send
RawNames == {<<"a.wav">>, <<"../", "a.wav">>, <<"b.wav">>,
             <<"enhanced_", "a.wav">>}

\* werkzeug secure_filename: directory parts are dropped
secure_filename(n) == SelectSeq(n, LAMBDA t : t # "../")

\* os.path.join(UPLOAD_FOLDER, filename)
file_path(n) == secure_filename(n)

\* os.path.join(UPLOAD_FOLDER, f'enhanced_{filename}')
enhanced_path(n) == <<"enhanced_">> \o secure_filename(n)

\* the paths the finally clause of a request removes
JobPaths(j) == {file_path(jobs[j].filename), enhanced_path(jobs[j].filename)}

\* the request has saved its upload and has not left its finally clause
InFlight(j) == jobs[j].pc \notin {"new", "finished"}

\* an exception leaves the try block: the finally clause removes both paths
JobFail(j, err) ==
    /\ jobs' = [jobs EXCEPT ![j].pc = "finished", ![j].error = err]
    /\ uploads' = uploads \ JobPaths(j)

\* the requests arrive, each with the filename its client chose
requests_arrive ==
    /\ entry = "none"
    /\ entry' = "concurrent"
    /\ \E names \in [1..NumJobs -> RawNames] :
         jobs' = [j \in 1..NumJobs |->
                     [filename |-> names[j], pc |-> "new", error |-> "none"]]
    /\ UNCHANGED <<pipeVars, jobVars, retry, tf, uploads, ws>>

\* line 108: audio_file.save(file_path)
job_save_upload ==
    \E j \in 1..Len(jobs) :
        /\ jobs[j].pc = "new"
        /\ uploads' = uploads \cup {file_path(jobs[j].filename)}
        /\ jobs' = [jobs EXCEPT ![j].pc = "saved"]
        /\ UNCHANGED <<entry, pipeVars, jobVars, retry, tf, ws>>

\* line 112: AudioProcessor(file_path) checks that the file exists
job_construct ==
    \E j \in 1..Len(jobs) :
        /\ jobs[j].pc = "saved"
        /\ IF file_path(jobs[j].filename) \in uploads
           THEN /\ jobs' = [jobs EXCEPT ![j].pc = "process"]
                /\ UNCHANGED uploads
           ELSE JobFail(j, "FileNotFoundError")
        /\ UNCHANGED <<entry, pipeVars, jobVars, retry, tf, ws>>

\* lines 113-115: process_audio decodes file_path and returns or raises
job_process ==
    \E j \in 1..Len(jobs), ok \in BOOLEAN :
        /\ jobs[j].pc = "process"
        /\ IF ok /\ file_path(jobs[j].filename) \in uploads
           THEN /\ jobs' = [jobs EXCEPT ![j].pc = "save"]
                /\ UNCHANGED uploads
           ELSE JobFail(j, "AudioEnhancementError")
        /\ UNCHANGED <<entry, pipeVars, jobVars, retry, tf, ws>>

\* lines 119-124: save_enhanced_audio writes enhanced_path
job_save_enhanced ==
    \E j \in 1..Len(jobs) :
        /\ jobs[j].pc = "save"
        /\ uploads' = uploads \cup {enhanced_path(jobs[j].filename)}
        /\ jobs' = [jobs EXCEPT ![j].pc = "transcribe"]
        /\ UNCHANGED <<entry, pipeVars, jobVars, retry, tf, ws>>

\* line 127: transcribe_file reads enhanced_path and removes it in its own
\* finally clause; it returns or raises
job_transcribe ==
    \E j \in 1..Len(jobs), ok \in BOOLEAN :
        /\ jobs[j].pc = "transcribe"
        /\ IF ok /\ enhanced_path(jobs[j].filename) \in uploads
           THEN /\ jobs' = [jobs EXCEPT ![j].pc = "update"]
                /\ uploads' = uploads \ {enhanced_path(jobs[j].filename)}
           ELSE JobFail(j, "DeepgramError")
        /\ UNCHANGED <<entry, pipeVars, jobVars, retry, tf, ws>>

\* lines 130-188: the record is completed, the finally clause removes both
\* paths
job_finish ==
    \E j \in 1..Len(jobs) :
        /\ jobs[j].pc = "update"
        /\ jobs' = [jobs EXCEPT ![j].pc = "finished"]
        /\ uploads' = uploads \ JobPaths(j)
        /\ UNCHANGED <<entry, pipeVars, jobVars, retry, tf, ws>>

Concurrent ==
    \/ requests_arrive
    \/ job_save_upload
    \/ job_construct
    \/ job_process
    \/ job_save_enhanced
    \/ job_transcribe
    \/ job_finish

(***************************************************************************)
(* transcription/deepgram_client.py: one call of transcribe_file, the      *)
(* coroutine wrapped by tenacity's @retry.  An exception is named by its    *)
(* class.                                                                   *)
(***************************************************************************)
\* what the request to the Deepgram API does
ApiOutcomes == {"response", "ConnectionError", "TimeoutError",
                "DeepgramApiError"}

\* deepgram_streaming.py line 26: self.max_reconnect_attempts = 3
max_reconnect_attempts == 3

\* line 102: stop=stop_after_attempt(3)
stop_after_attempt == 3

\* line 101: retry=retry_if_exception_type((ConnectionError, TimeoutError))
retry_if_exception_type(e) == e \in {"ConnectionError", "TimeoutError"}

\* lines 185-198: the except clause of the body re-raises a DeepgramError
\* and replaces every other exception by a DeepgramError
except_clause(e) ==
    IF e \in {"DeepgramError", "DeepgramValidationError"} THEN e
    ELSE "DeepgramError"

\* lines 127-149: what the try block raises ("none" if it returns)
try_block(exists, out) ==
    IF ~exists THEN "DeepgramValidationError"
    ELSE IF out = "response" THEN "none" ELSE out

\* word.get('speaker') of a word that carries no speaker field: None
NoSpeaker == -1

\* the words of the first alternative of a response: the text of each word
\* and the speaker Deepgram's diarization gave it, if any
Vocabulary == {"a", "b"}
SpeakerValues == {NoSpeaker, 0, 1}
WordLists ==
    UNION {[1..n -> [word : Vocabulary, speaker : SpeakerValues]] :
              n \in 0..MaxWords}

\* str(current_speaker)
str(n) ==
    CASE n = 0 -> "0"
      [] n = 1 -> "1"
      [] OTHER -> "None"

\* the locals of _extract_speakers before the loop (lines 211-219)
NoSegments == [speakers |-> <<>>, current_speaker |-> NoSpeaker,
               current_text |-> <<>>]

\* lines 222-233: one pass of the loop body on a word
speaker_step(st, word) ==
    LET closed ==
            IF word.speaker # st.current_speaker
            THEN [speakers |->
                      IF st.current_speaker # NoSpeaker
                      THEN Append(st.speakers,
                                  [speaker_id |-> str(st.current_speaker),
                                   text |-> st.current_text])
                      ELSE st.speakers,
                  current_speaker |-> word.speaker,
                  current_text |-> <<>>]
            ELSE st
    IN  [closed EXCEPT !.current_text = Append(@, word.word)]

\* line 221: for word in words, from the i-th word on
RECURSIVE speaker_loop(_, _, _)
speaker_loop(words, i, st) ==
    IF i > Len(words) THEN st
    ELSE speaker_loop(words, i + 1, speaker_step(st, words[i]))

\* _extract_speakers on the words of the first alternative; a text is the
\* sequence of the words that ' '.join puts together
extract_speakers(words) ==
    LET st == speaker_loop(words, 1, NoSegments)
    IN  IF st.current_speaker # NoSpeaker /\ st.current_text # <<>>
        THEN Append(st.speakers, [speaker_id |-> str(st.current_speaker),
                                  text |-> st.current_text])
        ELSE st.speakers

\* the wrapped coroutine is called on a path
transcribe_file_call ==
    /\ entry = "none"
    /\ entry' = "deepgram"
    /\ \E x \in BOOLEAN :
         tf' = [NoTf EXCEPT !.pc = "attempt", !.attempt_number = 1,
                            !.exists = x]
    /\ UNCHANGED <<pipeVars, jobVars, retry, jobs, uploads, ws>>

\* one run of the body: try (a response is turned into the result with its
\* speaker segments), except, finally (the file is removed), and
\* then the decision of the retry wrapper on what left the body
transcribe_file_attempt ==
    /\ tf.pc = "attempt"
    /\ \E out \in ApiOutcomes :
       \E words \in IF out = "response" THEN WordLists ELSE {<<>>} :
         LET raised == try_block(tf.exists, out)
             left == IF raised = "none" THEN "none" ELSE except_clause(raised)
             errors == IF tf.exists /\ out # "response"
                       THEN Append(tf.api_errors, out) ELSE tf.api_errors
         IN  IF left = "none"
             THEN tf' = [tf EXCEPT !.pc = "done", !.surfaced = "returned",
                                   !.exists = FALSE, !.words = words,
                                   !.speakers = extract_speakers(words)]
             ELSE IF retry_if_exception_type(left)
                     /\ tf.attempt_number < stop_after_attempt
                  THEN tf' = [tf EXCEPT !.attempt_number = @ + 1,
                                        !.api_errors = errors,
                                        !.exists = FALSE]
                  ELSE tf' = [tf EXCEPT !.pc = "done", !.surfaced = left,
                                        !.api_errors = errors,
                                        !.exists = FALSE]
    /\ UNCHANGED <<entry, pipeVars, jobVars, retry, jobs, uploads, ws>>

Deepgram ==
    \/ transcribe_file_call
    \/ transcribe_file_attempt

(***************************************************************************)
(* transcription/deepgram_streaming.py: one connection served by           *)
(* handle_websocket.  The coroutines of the event loop (handle_websocket   *)
(* and the handle_error callbacks) run one at a time and hand over only at *)
(* an await; each action is the code of one coroutine between two awaits.  *)
(***************************************************************************)
\* a check that lets the counter grow once more after it has reached the cap
may_reconnect_inclusive(metrics) ==
    metrics.reconnect_attempts <= max_reconnect_attempts

\* _handle_connection_error line 177
may_reconnect(metrics) ==
    metrics.reconnect_attempts < max_reconnect_attempts

\* lines 32-45: the metrics are created and stored in active_connections
handle_websocket_call ==
    /\ entry = "none"
    /\ entry' = "streaming"
    /\ ws' = [NoWs EXCEPT !.pc = "init", !.active = TRUE]
    /\ UNCHANGED <<pipeVars, jobVars, retry, tf, jobs, uploads>>

\* lines 64-69: _initialize_live_transcription returns a connection
live_started ==
    /\ ws.pc = "init"
    /\ ws' = [ws EXCEPT !.pc = "receive", !.connected = TRUE,
                        !.metrics.status = "connected"]
    /\ UNCHANGED <<entry, pipeVars, jobVars, retry, tf, jobs, uploads>>

\* lines 64-66 and 115-117: it returns None, the exception raised on it is
\* handled by the outer except clause
live_failed ==
    /\ ws.pc = "init"
    /\ ws' = [ws EXCEPT !.pc = "handle_error", !.site = "outer",
                        !.metrics.status = "error"]
    /\ UNCHANGED <<entry, pipeVars, jobVars, retry, tf, jobs, uploads>>

\* lines 96-106: a chunk is received and sent on
receive_data ==
    /\ ws.pc = "receive"
    /\ ws.metrics.chunks_processed < MaxChunks
    /\ ws' = [ws EXCEPT !.metrics.chunks_processed = @ + 1]
    /\ UNCHANGED <<entry, pipeVars, jobVars, retry, tf, jobs, uploads>>

\* lines 97-98: no data, the loop ends
receive_nothing ==
    /\ ws.pc = "receive"
    /\ ws' = [ws EXCEPT !.pc = "finish", !.loop_exit = "no_data"]
    /\ UNCHANGED <<entry, pipeVars, jobVars, retry, tf, jobs, uploads>>

\* lines 108-110 and 168-175: receive_bytes or send raises; the loop calls
\* _handle_connection_error, which awaits _send_error
receive_error ==
    /\ ws.pc = "receive"
    /\ ws' = [ws EXCEPT !.pc = "handle_error", !.site = "loop",
                        !.metrics.status = "error"]
    /\ UNCHANGED <<entry, pipeVars, jobVars, retry, tf, jobs, uploads>>

\* lines 177-188 in handle_websocket's call: after _send_error the counter
\* is compared and incremented with no await in between; False ends the
\* loop (line 111), from the outer except clause the finally clause is next
connection_error_decided ==
    /\ ws.pc = "handle_error"
    /\ IF may_reconnect(ws.metrics)
       THEN ws' = [ws EXCEPT !.pc = "reconnect_sleep",
                             !.metrics.reconnect_attempts = @ + 1]
       ELSE ws' = [ws EXCEPT
                     !.pc = IF ws.site = "loop" THEN "finish" ELSE "cleanup",
                     !.loop_exit = IF ws.site = "loop" THEN "handler_false"
                                   ELSE @]
    /\ UNCHANGED <<entry, pipeVars, jobVars, retry, tf, jobs, uploads>>

\* lines 181-184: after the sleep True is returned; the loop goes on
connection_error_returns ==
    /\ ws.pc = "reconnect_sleep"
    /\ ws' = [ws EXCEPT !.pc = IF ws.site = "loop" THEN "receive"
                               ELSE "cleanup"]
    /\ UNCHANGED <<entry, pipeVars, jobVars, retry, tf, jobs, uploads>>

\* line 113: live_transcription.finish() returns
finish_returns ==
    /\ ws.pc = "finish"
    /\ ws' = [ws EXCEPT !.pc = "cleanup", !.connected = FALSE]
    /\ UNCHANGED <<entry, pipeVars, jobVars, retry, tf, jobs, uploads>>

\* lines 113-117: it raises, the outer except clause handles the error
finish_raises ==
    /\ ws.pc = "finish"
    /\ ws' = [ws EXCEPT !.pc = "handle_error", !.site = "outer",
                        !.connected = FALSE, !.metrics.status = "error"]
    /\ UNCHANGED <<entry, pipeVars, jobVars, retry, tf, jobs, uploads>>

\* lines 118-119 and 216-232: the finally clause removes the entry
cleanup_connection ==
    /\ ws.pc = "cleanup"
    /\ ws' = [ws EXCEPT !.pc = "closed", !.active = FALSE]
    /\ UNCHANGED <<entry, pipeVars, jobVars, retry, tf, jobs, uploads>>

\* lines 81-85 and 168-175: Deepgram reports an error while the connection
\* is open; a handle_error coroutine starts and awaits _send_error
handle_error_called ==
    /\ ws.connected
    /\ ws.callbacks.send + ws.callbacks.sleep < MaxCallbacks
    /\ ws' = [ws EXCEPT !.callbacks.send = @ + 1,
                        !.metrics.status = "error"]
    /\ UNCHANGED <<entry, pipeVars, jobVars, retry, tf, jobs, uploads>>

\* lines 177-188 in a callback: compare and increment, then sleep, or give
\* up; the value returned is not used
handle_error_decided ==
    /\ ws.callbacks.send > 0
    /\ IF may_reconnect(ws.metrics)
       THEN ws' = [ws EXCEPT !.callbacks.send = @ - 1,
                             !.callbacks.sleep = @ + 1,
                             !.metrics.reconnect_attempts = @ + 1]
       ELSE ws' = [ws EXCEPT !.callbacks.send = @ - 1]
    /\ UNCHANGED <<entry, pipeVars, jobVars, retry, tf, jobs, uploads>>

\* lines 182-184 in a callback
handle_error_returns ==
    /\ ws.callbacks.sleep > 0
    /\ ws' = [ws EXCEPT !.callbacks.sleep = @ - 1]
    /\ UNCHANGED <<entry, pipeVars, jobVars, retry, tf, jobs, uploads>>

Streaming ==
    \/ handle_websocket_call
    \/ live_started
    \/ live_failed
    \/ receive_data
    \/ receive_nothing
    \/ receive_error
    \/ connection_error_decided
    \/ connection_error_returns
    \/ finish_returns
    \/ finish_raises
    \/ cleanup_connection
    \/ handle_error_called
    \/ handle_error_decided
    \/ handle_error_returns

Next ==
    \/ direct_call
    \/ Pipeline
    \/ Retry
    \/ Routes
    \/ Api
    \/ Concurrent
    \/ Deepgram
    \/ Streaming

Spec == Init /\ [][Next]_vars

(***************************************************************************)
(* Properties                                                              *)
(***************************************************************************)
Failed == result.kind = "error"

\* the job has ended and its caller has been given an error
JobFailed == surfaced.kind # "none" /\ surfaced.error # NoError

\* C1: whenever a budget expires while process_audio is running, the error
\* process_audio raises is AudioProcessingTimeout (error_code TIMEOUT_ERROR),
\* never an AudioEnhancementError.
C1_TimeoutIsTimeoutError ==
    (Failed /\ result.error.origin = "AudioProcessingTimeout")
        => /\ result.error.type = "AudioProcessingTimeout"
           /\ error_code(result.error.type) = "TIMEOUT_ERROR"

\* C2: process_audio (300 s) and enhance_audio (120 s) never run past their
\* own budget, counted from their own start: a call that is still active has
\* been running for less than its budget, whatever nested budgeted stages
\* have started and returned in the meantime.
C2_OuterBudgetEnforced ==
    \A i \in 1..Len(stack) :
        stack[i].fn \in {"process_audio", "enhance_audio"}
            => now - stack[i].start < Budget(stack[i].fn)

C4_FailedJobMarkedFailed ==
    (JobFailed /\ db.status # "none") => db.status = "failed"

\* C5: an existing, supported file whose decoded sample rate is below 8000 Hz
\* or whose channel count is above 2 makes process_audio raise
\* AudioQualityError (error_code QUALITY_ERROR), not an enhancement error.
C5_QualityErrorReachesCaller ==
    (Failed /\ result.error.origin = "AudioQualityError")
        => /\ result.error.type = "AudioQualityError"
           /\ error_code(result.error.type) = "QUALITY_ERROR"

\* the checks of the constructor have been decided and the files of the job
\* are still the ones they looked at
Validated == pc = "done" /\ jpc # "finished"

\* C6: validation runs existence, extension, sample rate, channel count, and
\* the first failing check decides the error: a missing path is not-found
\* whatever its extension; an existing file with an unsupported extension is
\* a format error raised before any decoding; a decoded file that violates
\* both the sample-rate floor and the channel ceiling reports the sample rate.
C6_ValidationOrder ==
    /\ (Validated /\ "input" \notin disk)
          => /\ Failed
             /\ result.error.type = "FileNotFoundError"
    /\ (Validated /\ "input" \in disk
          /\ Lower(file.suffix) \notin SUPPORTED_FORMATS)
          => /\ Failed
             /\ result.error.type = "AudioFormatError"
             /\ calls["normalize_audio"] = 0
             /\ audio = NoAudio
    /\ (Failed /\ result.error.origin = "AudioQualityError")
          => /\ "input" \in disk \/ jpc = "finished"
             /\ Lower(file.suffix) \in SUPPORTED_FORMATS
             /\ result.error.detail =
                  IF file.frame_rate < MIN_SAMPLE_RATE THEN "sample_rate"
                  ELSE "channels"
             /\ result.error.detail = "channels" => file.nch > MAX_CHANNELS

\* C6 witness: a decoded file with too low a rate and too many channels has
\* been rejected for its sample rate.
C6_Witness ==
    /\ Failed
    /\ file.frame_rate < MIN_SAMPLE_RATE
    /\ file.nch > MAX_CHANNELS
    /\ result.error.origin = "AudioQualityError"
    /\ result.error.detail = "sample_rate"

\* the error process_audio raised came out of enhance_audio, where a sub-step
\* (not a deadline) had failed
EnhancementFailed ==
    /\ Failed
    /\ result.error.origin # "AudioProcessingTimeout"
    /\ result.error.msg # <<>>
    /\ result.error.msg[1] = "Failed to enhance audio"

\* C7: when the enhancement of a channel fails on every attempt, it has been
\* attempted exactly 3 times and the job fails with ChunkRetryExhausted.
C7_EnhancementRetriedThreeTimes ==
    EnhancementFailed
        => /\ calls["enhance_audio"] = Len(enhanced) + 3
           /\ result.error.type = "ChunkRetryExhausted"

\* C8: the wait between consecutive attempts of retry_on_error is fixed: every
\* sleep lasts the configured delay, whatever the attempt index.
C8_FixedRetryDelay ==
    \A i \in 1..Len(retry.log) :
        retry.log[i].ev = "sleep" => retry.log[i].seconds = retry.delay

ValidationErrors == {"FileNotFoundError", "AudioFormatError",
                     "AudioQualityError"}

\* C9: a validation failure is terminal and never retried: after a not-found,
\* format or quality error no stage of the job has run a second time and no
\* later stage has run at all; in retry_on_error an exception outside
\* allowed_exceptions leaves the wrapper from the invocation that raised it,
\* with no sleep and no invocation after it.
C9_ValidationNotRetried ==
    /\ (Failed /\ result.error.origin \in ValidationErrors)
          => /\ pc = "done"
             /\ stack = <<>>
             /\ calls =
                  IF result.error.origin = "AudioQualityError"
                  THEN [s \in Stages |->
                          IF s \in {"process_audio", "normalize_audio"}
                          THEN 1 ELSE 0]
                  ELSE [s \in Stages |-> 0]
    /\ \A i \in 1..Len(retry.log) :
          retry.log[i].out = "other"
             => /\ i = Len(retry.log)
                /\ retry.pc = "done"
                /\ retry.outcome = "raised_other"
                /\ retry.raised = retry.attempt + 1

\* C9 witness: a quality error has ended a job of the web application; the
\* pipeline was entered once and nothing ran after normalize_audio.
C9_Witness ==
    /\ jpc = "finished"
    /\ JobFailed
    /\ result.error.origin = "AudioQualityError"
    /\ calls["normalize_audio"] = 1
    /\ calls["enhance_audio"] = 0

\* C10: for a normalized input with N channels the channel split yields
\* exactly N sample sequences of equal length, sequence k holding the samples
\* of channel k in their original order.
C10_SplitYieldsNChannels ==
    channels # <<>>
        => /\ Len(channels) = audio.channels
           /\ \A k \in 1..Len(channels) :
                channels[k].data = [f \in 1..audio.frames |-> <<f, k>>]

\* C11: for every pair (mean centroid, mean rolloff) the classifier returns
\* the label of the first matching row of the table: ambient iff centroid <
\* 1000 and rolloff < 2000; otherwise mechanical iff centroid > 3000 and
\* rolloff > 5000; otherwise speech_babble iff 1000 <= centroid <= 3000;
\* otherwise unknown.  Every pair gets exactly one of the four labels.
C11_ClassifierTable ==
    noise_type # "none" =>
        LET c == features.mean_centroid
            r == features.mean_rolloff
            ambient == c < 1000 /\ r < 2000
            mechanical == ~ambient /\ c > 3000 /\ r > 5000
            babble == ~ambient /\ ~mechanical /\ 1000 <= c /\ c <= 3000
        IN  /\ noise_type \in NoiseLabels
            /\ (noise_type = "ambient") <=> ambient
            /\ (noise_type = "mechanical") <=> mechanical
            /\ (noise_type = "speech_babble") <=> babble
            /\ (noise_type = "unknown")
                  <=> (~ambient /\ ~mechanical /\ ~babble)

\* C11 witness: a pair that matches no row but the last (a centroid below
\* 1000 with a rolloff at the ambient limit of 2000) has been classified and
\* process_audio has returned the label unknown.
C11_Witness ==
    /\ result.kind = "ok"
    /\ features.mean_centroid = 999
    /\ features.mean_rolloff = 2000
    /\ result.noise_type = "unknown"

C13_JobsOwnTheirFiles ==
    /\ \A i, j \in 1..Len(jobs) :
          (i # j /\ InFlight(i) /\ InFlight(j))
              => JobPaths(i) \cap JobPaths(j) = {}
    /\ \A j \in 1..Len(jobs) :
          /\ jobs[j].pc \in {"saved", "process"}
                => file_path(jobs[j].filename) \in uploads
          /\ jobs[j].pc = "transcribe"
                => enhanced_path(jobs[j].filename) \in uploads

\* C14: every error of the audio processor that replaces another exception
\* (the handlers of normalize, noise reduction, echo cancellation,
\* enhancement, classification, save, and the catch-all of process_audio)
\* carries the original exception object as its cause, not only the text of
\* its message.
C14_ReplacingErrorKeepsCause ==
    /\ (Failed /\ result.error.msg # <<>>)
          => result.error.cause = result.error.context
    /\ surfaced.error.msg # <<>>
          => surfaced.error.cause = surfaced.error.context

C16_LargeInputEnhancedInChunks ==
    (file.size_mb > 100 /\ channels # <<>> /\ Len(enhanced) = Len(channels))
        => calls["enhance_audio"] > Len(channels)

C18_ConnectionErrorRetried ==
    (/\ tf.pc = "done"
     /\ tf.surfaced # "returned"
     /\ tf.api_errors # <<>>
     /\ \A i \in 1..Len(tf.api_errors) :
           tf.api_errors[i] \in {"ConnectionError", "TimeoutError"})
        => /\ tf.attempt_number = 3
           /\ Len(tf.api_errors) = 3

\* C19: in echo cancellation every sample at an index i >= 1024 *
\* floor(L / 1024) of an input of length L (the trailing samples that do not
\* fill a complete block) is unchanged in the output; in particular an input
\* shorter than 1024 samples is returned unchanged.
C19_EchoTrailingSamplesUnchanged ==
    calls["echo_cancellation"] > 0 /\ enh.echo_cancelled # <<>>
        => LET L == Len(enh.cleaned_audio)
           IN  /\ Len(enh.echo_cancelled) = L
               /\ \A k \in 1..L :
                     k - 1 >= chunk_size * (L \div chunk_size)
                         => enh.echo_cancelled[k] = enh.cleaned_audio[k]

\* C20: the upper band edge is 8000 Hz clamped to Nyquist, so for every
\* sample rate the pipeline hands to enhance_audio, the target rate 16000 Hz
\* included, the normalized band edges satisfy 0 < low < high < 1 and the
\* filter design step is accepted.
C20_BandEdgesInsideUnitInterval ==
    calls["enhance_audio"] > 0 => butter_accepts(band_edges(audio.frame_rate))

\* C21: the suppression strength handed to the noise reducer follows the
\* input SNR of the channel as s = clamp(1 - SNR_db/30, 0.3, 0.75): 0.75 up to
\* 7.5 dB, 0.3 from 21 dB on, never outside [0.3, 0.75].  Strengths are
\* compared in units of 1/300.
C21_SuppressionFollowsSnr ==
    pc = "nr_body" =>
        LET raw == 300 - 10 * Top.snr_db
            clamped == IF raw < 90 THEN 90 ELSE IF raw > 225 THEN 225 ELSE raw
        IN  3 * prop_decrease = clamped

\* the positions inside enhance_audio after the pre-emphasis of the channel
\* that is being enhanced
AfterPreEmphasis ==
    pc \in {"enh_nr", "nr_body", "enh_echo", "echo_body", "enh_bandpass"}

\* C22: for every non-empty input x of length L pre-emphasis gives an output
\* y of length L with y[0] = x[0] and y[n] = x[n] - 0.97 * x[n-1] for every
\* 0 < n < L, each term using the original previous sample.
C22_PreEmphasisDifference ==
    AfterPreEmphasis =>
        LET x == channels[Len(enhanced) + 1].data
            y == enh.emphasized_audio
            D == full_scale(audio.sample_width)
            xv(n) == pcm(x[n][1], audio.frames)
        IN  /\ Len(y) = Len(x)
            /\ y[1].num = xv(1) /\ y[1].den = D
            /\ \A n \in 2..Len(x) :
                  /\ y[n].num = 100 * xv(n) - 97 * xv(n - 1)
                  /\ y[n].den = 100 * D

\* C22 witness: a channel of at least three samples has been pre-emphasised,
\* its third sample being a full-scale sample that follows another one.
C22_Witness ==
    /\ pc = "enh_nr"
    /\ Len(enh.emphasized_audio) >= 3
    /\ pcm(2, audio.frames) = -32768
    /\ enh.emphasized_audio[3].ops = <<"pre_emphasis">>

\* C24: at every hand-off of a sample buffer between stages (after the
\* integer-to-float conversion, after pre-emphasis) every sample lies in
\* [-1, 1].
C24_SamplesInUnitRange ==
    /\ \A n \in 1..Len(samples.data) :
          LET v == Sample(samples.data[n], audio)
          IN  -v.den <= v.num /\ v.num <= v.den
    /\ \A n \in 1..Len(enh.emphasized_audio) :
          LET v == enh.emphasized_audio[n]
          IN  -v.den <= v.num /\ v.num <= v.den

\* the message prefixes by which a handler of a sub-step of enhance_audio
\* marks the error it raises
SubStepTags == {"Failed to reduce noise", "Failed to cancel echo"}

\* C23: when one sub-step of enhance_audio fails (pre-emphasis, noise
\* reduction, echo cancellation or band-pass), the enhancement error that
\* enhance_audio raises identifies that sub-step, and enhance_audio invokes
\* every sub-step at most once per call.
C23_EnhancementErrorNamesSubStep ==
    /\ calls["adaptive_noise_reduction"] <= calls["enhance_audio"]
    /\ calls["echo_cancellation"] <= calls["enhance_audio"]
    /\ EnhancementFailed =>
          /\ Len(result.error.msg) >= 2
          /\ result.error.msg[2] \in SubStepTags

C26_NoAlarmLeftPending ==
    [][Len(stack') < Len(stack) => alarmAt' = NoAlarm]_vars

\* C26 witness: normalize_audio has returned inside process_audio, which is
\* still running, and no alarm is pending.
C26_Witness ==
    /\ pc = "pa_convert"
    /\ Len(stack) = 1
    /\ calls["normalize_audio"] = 1
    /\ alarmAt = NoAlarm

\* C27: after transcribe (routes.py) or _process_transcription (api.py) has
\* finished on any path, both the uploaded input file and the enhanced file
\* have been removed from the upload folder, and the cleanup step itself
\* raises no error.
C27_CleanupRemovesBothFiles ==
    (entry \in {"routes", "api"} /\ jpc = "finished") =>
        /\ disk = {}
        /\ surfaced.error.type # "UnboundLocalError"

\* C28: a function wrapped by retry_on_error(max_retries = m, m >= 1) is
\* invoked at most m times per call of the wrapper and never again after an
\* invocation has returned normally; when all m invocations raise an allowed
\* exception the wrapper raises the exception of the m-th invocation, and it
\* sleeps exactly m - 1 times (never after the last attempt).
C28_RetryBoundedByMaxRetries ==
    retry.max_retries >= 1 =>
        LET log == retry.log
            invocations == {i \in 1..Len(log) : log[i].ev = "invoke"}
            sleeps == {i \in 1..Len(log) : log[i].ev = "sleep"}
        IN  /\ Cardinality(invocations) <= retry.max_retries
            /\ \A i \in invocations : log[i].out = "returned" => i = Len(log)
            /\ retry.outcome = "raised_allowed" =>
                  /\ Cardinality(invocations) = retry.max_retries
                  /\ retry.raised = retry.max_retries
                  /\ Cardinality(sleeps) = retry.max_retries - 1
                  /\ log[Len(log)].ev = "invoke"

\* C28 witness: with max_retries = 3 every invocation has raised an allowed
\* exception and the wrapper has raised.
C28_Witness ==
    /\ retry.pc = "done"
    /\ retry.max_retries = 3
    /\ retry.outcome = "raised_allowed"
    /\ Len(retry.log) = 5

\* the texts of the segments, joined in order
RECURSIVE JoinTexts(_)
JoinTexts(segs) ==
    IF segs = <<>> THEN <<>> ELSE Head(segs).text \o JoinTexts(Tail(segs))

\* C30: _extract_speakers partitions the word list of the first alternative:
\* each word appears in exactly one returned segment, segments are in word
\* order, consecutive segments have different speaker_id, and joining the
\* segments' texts in order gives back the full word sequence - also for
\* words that carry no speaker field.
C30_SegmentsPartitionWords ==
    tf.surfaced = "returned" =>
        /\ JoinTexts(tf.speakers) = [i \in 1..Len(tf.words) |-> tf.words[i].word]
        /\ \A i \in 1..(Len(tf.speakers) - 1) :
              tf.speakers[i].speaker_id # tf.speakers[i + 1].speaker_id

\* C29: in the streaming client, for every connection
\* metrics['reconnect_attempts'] never exceeds max_reconnect_attempts (3)
\* under any interleaving of receive-loop errors and Deepgram error
\* callbacks; once it has reached 3 the next error in the receive loop ends
\* the loop, and when handle_websocket is over the connection's entry has
\* been removed from active_connections.
C29_ReconnectAttemptsCapped ==
    [][/\ ws'.metrics.reconnect_attempts <= max_reconnect_attempts
       /\ (/\ ws.pc = "handle_error"
           /\ ws.site = "loop"
           /\ ws.metrics.reconnect_attempts = max_reconnect_attempts
           /\ ws'.pc # ws.pc) => ws'.pc = "finish"
       /\ ws'.pc = "closed" => ~ws'.active]_vars

\* C29 witness: receive-loop errors and a callback have brought the counter
\* to 3, the next error in the loop has ended it, and the entry is removed.
C29_Witness ==
    /\ ws.pc = "closed"
    /\ ws.loop_exit = "handler_false"
    /\ ws.metrics.reconnect_attempts = max_reconnect_attempts
    /\ ws.callbacks.sleep > 0
    /\ ~ws.active

====
